---- MODULE Spec2Model ----
(***************************************************************************)
(* Model of src/lib.rs of code-frame: marker_lines (the span resolver) and  *)
(* code_frame (the frame renderer).                                          *)
(*                                                                           *)
(* A run is one call of code_frame(lines, loc, context_window):              *)
(*   pc = "call"      code_frame was called, marker_lines has not run yet    *)
(*   pc = "render"    marker_lines returned, the frame is not rendered yet   *)
(*   pc = "returned"  code_frame returned the String in result               *)
(*   pc = "panicked"  the call unwound with the panic named in panic         *)
(*                                                                           *)
(* usize values that can be large (the two window options, line_diff, a      *)
(* marker's len) are kept at their full 64-bit width as four 16-bit limbs,   *)
(* least significant first, so that `as i32`, the i32 subtraction and the    *)
(* usize additions and subtractions behave as the machine's do.  Line and    *)
(* column numbers of the inputs are small naturals.                          *)
(* Arithmetic overflow panics when the build has overflow checks (debug)     *)
(* and wraps when it has not (release): overflow_checks is the build.        *)
(***************************************************************************)
EXTENDS Integers, Sequences, FiniteSets

VARIABLES lines, loc, options, overflow_checks, pc, ml, result, panic

vars == <<lines, loc, options, overflow_checks, pc, ml, result, panic>>

-----------------------------------------------------------------------------
(* Bounds of the inputs *)

MaxLines == 2
LongFile == 11
MaxLineLen == 1
MaxCol == 2
BigWindow == 12

-----------------------------------------------------------------------------
(* usize: 64 bits as four 16-bit limbs; i32: an integer in I32Min..I32Max *)

Base == 65536
HalfBase == 32768
I32Max == 2147483647
I32Min == (-I32Max) - 1

\* the usize of a natural below 2^31
U(n) == <<n % Base, (n \div Base) % Base, 0, 0>>

\* the usize is below 2^31, and then N is its value
Fits(u) == u[3] = 0 /\ u[4] = 0 /\ u[2] < HalfBase
N(u) == u[1] + u[2] * Base

UsizeMax == <<Base - 1, Base - 1, Base - 1, Base - 1>>
\* isize::MAX < u
AboveIsizeMax(u) == u[4] >= HalfBase

LessU(a, b) ==
    \/ a[4] < b[4]
    \/ a[4] = b[4] /\ a[3] < b[3]
    \/ a[4] = b[4] /\ a[3] = b[3] /\ a[2] < b[2]
    \/ a[4] = b[4] /\ a[3] = b[3] /\ a[2] = b[2] /\ a[1] < b[1]

MinU(a, b) == IF LessU(b, a) THEN b ELSE a
MaxU(a, b) == IF LessU(a, b) THEN b ELSE a

\* a + b modulo 2^64, and whether the true sum does not fit
WrappingAdd(a, b) ==
    LET s1 == a[1] + b[1]
        s2 == a[2] + b[2] + (s1 \div Base)
        s3 == a[3] + b[3] + (s2 \div Base)
        s4 == a[4] + b[4] + (s3 \div Base)
    IN  [value |-> <<s1 % Base, s2 % Base, s3 % Base, s4 % Base>>,
         overflow |-> s4 >= Base]

\* a - b modulo 2^64, and whether the true difference is negative
WrappingSub(a, b) ==
    LET d1 == a[1] - b[1]
        w1 == IF d1 < 0 THEN 1 ELSE 0
        d2 == a[2] - b[2] - w1
        w2 == IF d2 < 0 THEN 1 ELSE 0
        d3 == a[3] - b[3] - w2
        w3 == IF d3 < 0 THEN 1 ELSE 0
        d4 == a[4] - b[4] - w3
        w4 == IF d4 < 0 THEN 1 ELSE 0
    IN  [value |-> <<d1 + w1 * Base, d2 + w2 * Base, d3 + w3 * Base, d4 + w4 * Base>>,
         overflow |-> w4 = 1]

\* `x as i32` of a usize x: the low 32 bits, read as two's complement
AsI32(u) ==
    IF u[2] >= HalfBase THEN (u[2] - Base) * Base + u[1] ELSE u[2] * Base + u[1]

\* a - b on i32: the wrapped difference, and whether the true one does not fit
I32Sub(a, b) ==
    IF b < 0 /\ a > I32Max + b
    THEN [value |-> ((a - I32Max) - 1) - ((b + I32Max) + 1), overflow |-> TRUE]
    ELSE IF b > 0 /\ a < I32Min + b
    THEN [value |-> ((a + I32Max) + 1) + ((I32Max - b) + 1), overflow |-> TRUE]
    ELSE [value |-> a - b, overflow |-> FALSE]

Max(a, b) == IF a >= b THEN a ELSE b
Min(a, b) == IF a <= b THEN a ELSE b

-----------------------------------------------------------------------------
(* Strings are sequences of one-character strings *)

Pattern == <<"a", " ", "|", " ", "^">>
Text(k) == [j \in 1..k |-> Pattern[((j - 1) % Len(Pattern)) + 1]]

Digit(d) == <<"0", "1", "2", "3", "4", "5", "6", "7", "8", "9">>[d + 1]

\* usize::to_string
RECURSIVE ToString(_)
ToString(n) == IF n < 10 THEN <<Digit(n)>> ELSE ToString(n \div 10) \o <<Digit(n % 10)>>

\* str::repeat of a one-character string
Repeat(c, n) == [j \in 1..n |-> c]

\* [String]::join
RECURSIVE Join(_, _)
Join(rows, sep) ==
    IF Len(rows) = 0 THEN <<>>
    ELSE IF Len(rows) = 1 THEN rows[1]
    ELSE rows[1] \o sep \o Join(Tail(rows), sep)

-----------------------------------------------------------------------------
(* Inputs *)

NoValue == "none"

LineCounts == (0..MaxLines) \cup {LongFile}
File(n, p) == [i \in 1..n |-> Text((i - 1 + p) % (MaxLineLen + 1))]
Files == {File(n, p) : n \in LineCounts, p \in 0..MaxLineLen}

SpanLines == (0..(MaxLines + 1)) \cup ((LongFile - 3)..LongFile)
Columns == 0..MaxCol

TwoPow31 == <<0, HalfBase, 0, 0>>
TwoPow32Minus1 == <<Base - 1, Base - 1, 0, 0>>
LinesAbove == {U(0), U(1), U(BigWindow), TwoPow31, TwoPow32Minus1}
LinesBelow == {U(0), U(1), U(BigWindow), UsizeMax}

Init ==
    /\ lines \in Files
    /\ \E sl \in SpanLines, d \in -1..2, sc \in Columns, ec \in Columns :
          /\ sl + d >= 0
          /\ loc = [start |-> [line |-> sl, column |-> sc],
                    end |-> [line |-> sl + d, column |-> ec]]
    /\ \E a \in LinesAbove, b \in LinesBelow :
          options = [lines_above |-> a, lines_below |-> b]
    /\ overflow_checks \in BOOLEAN
    /\ pc = "call"
    /\ ml = NoValue
    /\ result = NoValue
    /\ panic = NoValue


-----------------------------------------------------------------------------
(* Outcomes of a function: it panicked, or it returned a value *)

Panicked(msg) == [panic |-> msg, value |-> NoValue]
Returned(v) == [panic |-> NoValue, value |-> v]

\* HashMap::new and HashMap::insert
EmptyMarkers == [x \in {} |-> <<0, U(0)>>]
Insert(m, k, v) == [x \in (DOMAIN m) \cup {k} |-> IF x = k THEN v ELSE m[x]]

-----------------------------------------------------------------------------
(* marker_lines *)

\* the first line of a multi-line span: (start_col, lines[line_number].len() - start_col)
FirstLineMarker(ls, line_number, start_col) ==
    IF line_number >= Len(ls) THEN Panicked("index out of bounds")
    ELSE LET len == WrappingSub(U(Len(ls[line_number + 1])), U(start_col))
         IN  IF len.overflow /\ overflow_checks
             THEN Panicked("attempt to subtract with overflow")
             ELSE Returned(<<start_col, len.value>>)

\* the last line of a multi-line span: (0, end_col)
LastLineMarker(end_col) == Returned(<<0, U(end_col)>>)

\* a line in the middle of a multi-line span: (0, lines[line_number].len())
MiddleLineMarker(ls, line_number) ==
    IF line_number >= Len(ls) THEN Panicked("index out of bounds")
    ELSE Returned(<<0, U(Len(ls[line_number + 1]))>>)

\* the marker on a single line: (start_col, 0) or (start_col, end_col - start_col)
SingleLineMarker(start_col, end_col) ==
    IF start_col = end_col THEN Returned(<<start_col, U(0)>>)
    ELSE LET len == WrappingSub(U(end_col), U(start_col))
         IN  IF len.overflow /\ overflow_checks
             THEN Panicked("attempt to subtract with overflow")
             ELSE Returned(<<start_col, len.value>>)

\* `for i in 0..=line_diff`, from iteration i on, with the markers m inserted so far.
\* i stays a small natural: an iteration with i + start_line >= lines.len() that
\* is not the last one panics on its index.
RECURSIVE MultiLineLoop(_, _, _, _, _)
MultiLineLoop(ls, l, line_diff, i, m) ==
    LET line_number == i + l.start.line
        marker == IF i = 0 THEN FirstLineMarker(ls, line_number, l.start.column)
                  ELSE IF U(i) = line_diff THEN LastLineMarker(l.end.column)
                  ELSE MiddleLineMarker(ls, line_number)
    IN  IF marker.panic # NoValue THEN marker
        ELSE IF U(i) = line_diff THEN Returned(Insert(m, line_number, marker.value))
        ELSE MultiLineLoop(ls, l, line_diff, i + 1, Insert(m, line_number, marker.value))

\* let start = ((start_line as i32) - (lines_above as i32)).max(0) as usize;
DisplayStart(start_line, lines_above) ==
    LET sub == I32Sub(AsI32(U(start_line)), AsI32(lines_above))
    IN  IF sub.overflow /\ overflow_checks
        THEN Panicked("attempt to subtract with overflow")
        ELSE Returned(Max(sub.value, 0))

\* let end = lines.len().min(end_line + lines_below).max(0);
DisplayEnd(len, end_line, lines_below) ==
    LET sum == WrappingAdd(U(end_line), lines_below)
    IN  IF sum.overflow /\ overflow_checks
        THEN Panicked("attempt to add with overflow")
        ELSE Returned(N(MaxU(MinU(U(len), sum.value), U(0))))

\* let line_diff = end_line - start_line;
LineDiff(start_line, end_line) ==
    LET diff == WrappingSub(U(end_line), U(start_line))
    IN  IF diff.overflow /\ overflow_checks
        THEN Panicked("attempt to subtract with overflow")
        ELSE Returned(diff.value)

marker_lines(ls, l, o) ==
    LET start == DisplayStart(l.start.line, o.lines_above)
        end == DisplayEnd(Len(ls), l.end.line, o.lines_below)
        line_diff == LineDiff(l.start.line, l.end.line)
    IN  IF start.panic # NoValue THEN start
        ELSE IF end.panic # NoValue THEN end
        ELSE IF line_diff.panic # NoValue THEN line_diff
        ELSE LET markers ==
                   IF line_diff.value # U(0)
                   THEN MultiLineLoop(ls, l, line_diff.value, 0, EmptyMarkers)
                   ELSE LET marker == SingleLineMarker(l.start.column, l.end.column)
                        IN  IF marker.panic # NoValue THEN marker
                            ELSE Returned(Insert(EmptyMarkers, l.start.line, marker.value))
             IN  IF markers.panic # NoValue THEN markers
                 ELSE Returned([start |-> start.value, end |-> end.value,
                                marker_lines |-> markers.value])

-----------------------------------------------------------------------------
(* code_frame *)

\* str::repeat(n) of a one-character string: more than isize::MAX bytes cannot be
\* allocated.  A count that is not above isize::MAX is below 2^31 here.
RepeatU(c, n) ==
    IF AboveIsizeMax(n) THEN Panicked("capacity overflow") ELSE Returned(Repeat(c, N(n)))

\* format!("{}{}{}", marker_padding, marker, line_number_padding)
MarkerLine(start_col, len, line_number_padding) ==
    LET marker == RepeatU("^", MaxU(len, U(1)))
        marker_padding == RepeatU(" ", U(start_col))
    IN  IF marker.panic # NoValue THEN marker
        ELSE IF marker_padding.panic # NoValue THEN marker_padding
        ELSE Returned(marker_padding.value \o marker.value \o line_number_padding)

\* MarkedRow without its second line, the marker row
MarkedRowOnly(line_number, line, line_number_padding, marker_line) ==
    <<">", " ">> \o ToString(line_number) \o <<" ", "|", " ">> \o line

\* format!("> {} | {}\n  {} | {}", line_number, line, line_number_padding, marker_line)
MarkedRow(line_number, line, line_number_padding, marker_line) ==
    <<">", " ">> \o ToString(line_number) \o <<" ", "|", " ">> \o line
        \o <<"\n", " ", " ">> \o line_number_padding \o <<" ", "|", " ">> \o marker_line

\* format!("  {} | {}", line_number, line)
UnmarkedRow(line_number, line) ==
    <<" ", " ">> \o ToString(line_number) \o <<" ", "|", " ">> \o line

\* the closure of .map(): the text of the i-th line of the context
Row(i, line, m, max_line_number_width) ==
    LET line_number == i + m.start
        line_number_width == Len(ToString(line_number))
        padding == WrappingSub(U(max_line_number_width), U(line_number_width))
        line_number_padding == RepeatU(" ", padding.value)
    IN  IF padding.overflow /\ overflow_checks
        THEN Panicked("attempt to subtract with overflow")
        ELSE IF line_number_padding.panic # NoValue THEN line_number_padding
        ELSE IF line_number \in DOMAIN m.marker_lines
        THEN LET marker_line == MarkerLine(m.marker_lines[line_number][1],
                                           m.marker_lines[line_number][2],
                                           line_number_padding.value)
             IN  IF marker_line.panic # NoValue THEN marker_line
                 ELSE Returned(MarkedRow(line_number, line, line_number_padding.value,
                                         marker_line.value))
        ELSE Returned(UnmarkedRow(line_number, line))

\* the rest of code_frame, after marker_lines returned m
Frame(ls, m) ==
    LET max_line_number_width == Len(ToString(m.end)) + 1
    IN  IF m.start > m.end \/ m.end > Len(ls) THEN Panicked("slice index out of range")
        ELSE LET context == SubSeq(ls, m.start + 1, m.end)
                 rows == [i \in 1..Len(context) |->
                              Row(i - 1, context[i], m, max_line_number_width)]
             IN  IF \E i \in 1..Len(rows) : rows[i].panic # NoValue
                 THEN rows[CHOOSE i \in 1..Len(rows) :
                               /\ rows[i].panic # NoValue
                               /\ \A j \in 1..(i - 1) : rows[j].panic = NoValue]
                 ELSE Returned(Join([i \in 1..Len(rows) |-> rows[i].value], <<"\n">>))

-----------------------------------------------------------------------------
(* Steps of a call *)

\* let marker_lines = marker_lines(lines, loc, context_window);
MarkerLines ==
    /\ pc = "call"
    /\ LET r == marker_lines(lines, loc, options)
       IN  IF r.panic # NoValue
           THEN /\ pc' = "panicked"
                /\ panic' = r.panic
                /\ ml' = ml
           ELSE /\ pc' = "render"
                /\ ml' = r.value
                /\ panic' = panic
    /\ UNCHANGED <<lines, loc, options, overflow_checks, result>>

\* the slice, the map over the context and the join
Render ==
    /\ pc = "render"
    /\ LET r == Frame(lines, ml)
       IN  IF r.panic # NoValue
           THEN /\ pc' = "panicked"
                /\ panic' = r.panic
                /\ result' = result
           ELSE /\ pc' = "returned"
                /\ result' = r.value
                /\ panic' = panic
    /\ UNCHANGED <<lines, loc, options, overflow_checks, ml>>

Next == MarkerLines \/ Render

Spec == Init /\ [][Next]_vars

-----------------------------------------------------------------------------
(* What the claims speak of: the inputs' validity and the rows of the output *)

StartLine == loc.start.line
EndLine == loc.end.line

\* start does not come after end in document order
StartNotAfterEnd ==
    \/ StartLine < EndLine
    \/ StartLine = EndLine /\ loc.start.column <= loc.end.column

ValidSpan == StartNotAfterEnd /\ EndLine < Len(lines)

\* each column of the span is at most the length of its line
ColumnsInLines ==
    /\ StartLine < Len(lines) => loc.start.column <= Len(lines[StartLine + 1])
    /\ EndLine < Len(lines) => loc.end.column <= Len(lines[EndLine + 1])

ValidPreconditions == Len(lines) > 0 /\ ValidSpan /\ ColumnsInLines

ZeroWindow == options.lines_above = U(0) /\ options.lines_below = U(0)

\* both window sizes are below 2^31
SmallWindows == Fits(options.lines_above) /\ Fits(options.lines_below)

\* marker_lines returned ml
Resolved == pc = "render" \/ pc = "returned"

\* the text cut at every occurrence of the character c
RECURSIVE Split(_, _)
Split(s, c) ==
    IF \E k \in 1..Len(s) : s[k] = c
    THEN LET k == CHOOSE k \in 1..Len(s) : s[k] = c /\ \A j \in 1..(k - 1) : s[j] # c
         IN  <<SubSeq(s, 1, k - 1)>> \o Split(SubSeq(s, k + 1, Len(s)), c)
    ELSE <<s>>

\* the printed rows of the returned text; the empty text has no row
OutputRows == IF Len(result) = 0 THEN <<>> ELSE Split(result, "\n")

StartsWith(s, prefix) == Len(s) >= Len(prefix) /\ SubSeq(s, 1, Len(prefix)) = prefix

IsDigit(c) == c \in {"0", "1", "2", "3", "4", "5", "6", "7", "8", "9"}

SepAt(row, k) == k + 2 <= Len(row) /\ SubSeq(row, k, k + 2) = <<" ", "|", " ">>
HasSep(row) == \E k \in 1..Len(row) : SepAt(row, k)
\* the column at which the first " | " of the row starts
SepIndex(row) == CHOOSE k \in 1..Len(row) : SepAt(row, k) /\ \A j \in 1..(k - 1) : ~SepAt(row, j)

\* the row is the source row of line i with the two-character prefix given
IsSourceRow(row, prefix, i) == StartsWith(row, prefix \o ToString(i) \o <<" ", "|", " ">>)

\* a row with a number after its two-character prefix, and that number
IsNumbered(row) == Len(row) >= 3 /\ IsDigit(row[3])
RECURSIVE ParseNat(_, _, _)
ParseNat(row, k, acc) ==
    IF k <= Len(row) /\ IsDigit(row[k])
    THEN ParseNat(row, k + 1, acc * 10
             + (CHOOSE d \in 0..9 : Digit(d) = row[k]))
    ELSE acc
RowNumber(row) == ParseNat(row, 3, 0)

\* the length of the longest run of the character c in s from position k on
RECURSIVE Run(_, _, _)
Run(s, k, c) == IF k <= Len(s) /\ s[k] = c THEN 1 + Run(s, k + 1, c) ELSE 0

\* a marker row: two-space indent, a blank gutter, the separator, then spaces
\* and carets; its number of spaces before the carets and its number of carets
IsMarkerRow(row) ==
    /\ StartsWith(row, <<" ", " ">>)
    /\ ~IsNumbered(row)
    /\ HasSep(row)
    /\ \A k \in 1..(SepIndex(row) - 1) : row[k] = " "
MarkerSpaces(row) == Run(row, SepIndex(row) + 3, " ")
MarkerCarets(row) == Run(row, SepIndex(row) + 3 + MarkerSpaces(row), "^")

\* the line numbers of the source rows, in the order printed
DisplayedLines ==
    LET numbered == SelectSeq(OutputRows, IsNumbered)
    IN  [k \in 1..Len(numbered) |-> RowNumber(numbered[k])]

\* the marker row printed right after the source row of line i, if there is one
HasMarkerRowOf(i) ==
    \E k \in 1..(Len(OutputRows) - 1) :
        /\ IsNumbered(OutputRows[k]) /\ RowNumber(OutputRows[k]) = i
        /\ IsMarkerRow(OutputRows[k + 1])
MarkerRowOf(i) ==
    OutputRows[1 + CHOOSE k \in 1..(Len(OutputRows) - 1) :
        /\ IsNumbered(OutputRows[k]) /\ RowNumber(OutputRows[k]) = i
        /\ IsMarkerRow(OutputRows[k + 1])]

-----------------------------------------------------------------------------
(* The claims *)

\* the sequence lo, lo + 1, ..., hi
Range(lo, hi) == [k \in 1..(hi - lo + 1) |-> lo + k - 1]

\* C1: with lines_above = lines_below = 0 and a valid span, the returned frame
\* displays exactly the lines start.line..end.line, each followed by its
\* marker row.
C1_ZeroWindowShowsSpanLines ==
    (pc = "returned" /\ ZeroWindow /\ ValidSpan) =>
        /\ DisplayedLines = Range(StartLine, EndLine)
        /\ \A i \in StartLine..EndLine : HasMarkerRowOf(i)

\* C2: for valid input, every printed row of the returned frame has its
\* separator " | " starting at the same column.
C2_GutterAligned ==
    (pc = "returned" /\ ValidPreconditions) =>
        \A j, k \in 1..Len(OutputRows) :
            /\ HasSep(OutputRows[j])
            /\ SepIndex(OutputRows[j]) = SepIndex(OutputRows[k])

\* max(0, start.line - lines_above) and min(lines.length, end.line + lines_below)
\* over the integers, for window sizes of any magnitude
ClampedStart == IF Fits(options.lines_above)
                THEN Max(0, StartLine - N(options.lines_above)) ELSE 0
ClampedEnd == IF Fits(options.lines_below)
              THEN Min(Len(lines), EndLine + N(options.lines_below)) ELSE Len(lines)

\* C3: for every valid span and all window sizes, the display range computed
\* by marker_lines is start = max(0, start.line - lines_above) and
\* end = min(lines.length, end.line + lines_below), so 0 <= start <= end <= lines.length.
C3_DisplayRangeClamped ==
    (Resolved /\ ValidSpan) =>
        /\ ml.start = ClampedStart
        /\ ml.end = ClampedEnd
        /\ 0 <= ml.start /\ ml.start <= ml.end /\ ml.end <= Len(lines)


\* the marker (start_col, len) of line i in ml, with len an integer
MarkerIs(i, start_col, len) ==
    /\ i \in DOMAIN ml.marker_lines
    /\ ml.marker_lines[i][1] = start_col
    /\ Fits(ml.marker_lines[i][2])
    /\ N(ml.marker_lines[i][2]) = len

\* C4: for every valid span, the marker set built by marker_lines has an entry
\* for exactly the lines start.line..end.line; a single-line span has
\* (start.column, end.column - start.column); a multi-line span has
\* (start.column, length(line) - start.column) on its first line, (0, end.column)
\* on its last and (0, length(line)) on every line between.
C4_MarkerSet ==
    (Resolved /\ ValidSpan) =>
        /\ DOMAIN ml.marker_lines = StartLine..EndLine
        /\ StartLine = EndLine =>
               MarkerIs(StartLine, loc.start.column, loc.end.column - loc.start.column)
        /\ StartLine < EndLine =>
               /\ MarkerIs(StartLine, loc.start.column,
                           Len(lines[StartLine + 1]) - loc.start.column)
               /\ MarkerIs(EndLine, 0, loc.end.column)
               /\ \A i \in (StartLine + 1)..(EndLine - 1) :
                      MarkerIs(i, 0, Len(lines[i + 1]))

\* C5: for every line of the marker set of a render of valid input, the
\* returned frame has a marker row for that line with exactly start_column
\* spaces after the separator and then max(length, 1) carets.
C5_MarkerRows ==
    (pc = "returned" /\ ValidPreconditions) =>
        \A i \in DOMAIN ml.marker_lines :
            /\ HasMarkerRowOf(i)
            /\ MarkerSpaces(MarkerRowOf(i)) = ml.marker_lines[i][1]
            /\ U(MarkerCarets(MarkerRowOf(i))) = MaxU(ml.marker_lines[i][2], U(1))

\* C6: an invalid span (end.line >= lines.length, or start after end) over a
\* source that has lines ends in an error; code_frame never returns a rendered
\* text for it.
C6_InvalidSpanFails ==
    (Len(lines) > 0 /\ ~ValidSpan) => pc # "returned"

\* C7: with no lines, code_frame ends in an error and never returns a text.
C7_EmptySourceFails ==
    Len(lines) = 0 => pc # "returned"

\* the arithmetic of marker_lines on the inputs of this call
StartWraps == I32Sub(AsI32(U(StartLine)), AsI32(options.lines_above)).overflow
EndWraps == WrappingAdd(U(EndLine), options.lines_below).overflow

\* C8: under valid preconditions and for window sizes of the whole unsigned
\* range, code_frame completes: nothing overflows or wraps, no index is out of
\* bounds, the slice is not inverted, and the display start is at most start.line.
C8_NoOverflow ==
    ValidPreconditions =>
        /\ pc # "panicked"
        /\ pc # "call" => ~StartWraps /\ ~EndWraps
        /\ Resolved => ml.start <= StartLine /\ ml.start <= ml.end


\* the rows from rows on are those of the lines i, i + 1, ..., ml.end - 1: a
\* source row each, prefixed "> " and followed by one marker row when the line
\* has a marker, prefixed by two spaces when it has none
RECURSIVE RowsFrom(_, _)
RowsFrom(rows, i) ==
    IF i >= ml.end THEN Len(rows) = 0
    ELSE IF i \in DOMAIN ml.marker_lines
    THEN /\ Len(rows) >= 2
         /\ IsSourceRow(rows[1], <<">", " ">>, i)
         /\ IsMarkerRow(rows[2])
         /\ RowsFrom(SubSeq(rows, 3, Len(rows)), i + 1)
    ELSE /\ Len(rows) >= 1
         /\ IsSourceRow(rows[1], <<" ", " ">>, i)
         /\ RowsFrom(Tail(rows), i + 1)

MarkedInRange == (DOMAIN ml.marker_lines) \cap (ml.start..(ml.end - 1))

\* C9: the returned text is one source row per line of [start, end) in
\* ascending order; a line with a marker has its source row prefixed "> " and
\* followed by exactly one marker row, every other source row and every marker
\* row starts with two spaces; rows are joined by single newlines with none
\* trailing, so there are (end - start) + (marked lines in the range) rows.
C9_RowStructure ==
    pc = "returned" =>
        /\ RowsFrom(OutputRows, ml.start)
        /\ Len(result) > 0 => result[Len(result)] # "\n"
        /\ Len(OutputRows) = (ml.end - ml.start) + Cardinality(MarkedInRange)

\* a frame was returned that has a line with a marker, lines without one on
\* both sides of it, and a context that ends in a line without a marker
C9_Witness ==
    /\ pc = "returned"
    /\ \E i \in MarkedInRange :
           /\ ml.start < i
           /\ (i + 1) \in (ml.start..(ml.end - 1)) \ MarkedInRange
    /\ Cardinality(MarkedInRange) >= 2
    /\ Len(OutputRows) >= 5

\* a column of the span is past the end of the text of its line
ColumnOverrun ==
    \/ loc.start.column > Len(lines[StartLine + 1])
    \/ StartLine = EndLine /\ loc.end.column > Len(lines[EndLine + 1])

\* C10: when a column of a valid span exceeds the length of its line (and the
\* window sizes are ordinary), code_frame either fails with ColumnOutOfRange or treats the column as
\* clamped: it does not fail on the unchecked subtraction, and no marker it
\* renders reaches past the end of the line's text by more than one caret.
C10_ColumnOverrunHandled ==
    (Len(lines) > 0 /\ ValidSpan /\ SmallWindows /\ ColumnOverrun) =>
        /\ pc = "panicked" => panic = "ColumnOutOfRange"
        /\ pc = "returned" =>
               \A i \in MarkedInRange :
                   HasMarkerRowOf(i) =>
                       MarkerSpaces(MarkerRowOf(i)) + MarkerCarets(MarkerRowOf(i))
                           <= Len(lines[i + 1]) + 1

====
